---- MODULE Spec2Model ----
(***************************************************************************)
(* Model of the Olog management program (src/src/main.rs): the SQLite      *)
(* store behind read_olog_from_db / write_olog_to_db / delete_olog_from_db, *)
(* the merge-ologs command, merge_ologs, replace_ids_with_uuids,           *)
(* convert_json_olog_to_olog and convert_olog_to_json.                     *)
(*                                                                         *)
(* A Uuid is a natural number.  A String is a record [fmt, hex]: fmt says  *)
(* how the text is written and hex which 128-bit value (or which piece of  *)
(* free text) it spells.  Uuid::to_string always writes the hyphenated     *)
(* form; Uuid::parse_str accepts several forms and rejects free text.      *)
(***************************************************************************)
EXTENDS Integers, Sequences, FiniteSets, TLC

VARIABLES
    store,   \* the six tables of olog.db, each a sequence of rows in rowid order
    fresh,   \* how many Uuid::new_v4() values have been minted so far
    ops,     \* how many commands that write to the store have run so far
    call     \* the last call made: its name, its arguments and what it returned

vars == <<store, fresh, ops, call>>

----------------------------------------------------------------------------
(* Sequences and results *)

SeqMap(f(_), s) == [i \in 1..Len(s) |-> f(s[i])]

RECURSIVE Flatten(_)
Flatten(ss) == IF ss = <<>> THEN <<>> ELSE Head(ss) \o Flatten(Tail(ss))

Range(s) == {s[i] : i \in 1..Len(s)}

\* every ordering of the elements of a sequence (an iteration order of a HashMap)
Perms(s) ==
    {[i \in 1..Len(s) |-> s[p[i]]] : p \in {q \in [1..Len(s) -> 1..Len(s)] :
                                             \A i, j \in 1..Len(s) : q[i] = q[j] => i = j}}

Ok(v) == [ok |-> TRUE, val |-> v]
Err(e) == [ok |-> FALSE, err |-> e]

\* Iterator<Result<T, E>>::collect::<Result<Vec<T>, E>>(): the first Err, else all values
CollectResults(rs) ==
    IF \E i \in 1..Len(rs) : ~rs[i].ok
    THEN rs[CHOOSE i \in 1..Len(rs) : ~rs[i].ok /\ \A j \in 1..(i-1) : rs[j].ok]
    ELSE Ok([i \in 1..Len(rs) |-> rs[i].val])

----------------------------------------------------------------------------
(* Uuid <-> String *)

UuidFormats == {"hyphenated", "simple", "urn", "braced"}

\* Uuid::to_string
UuidToString(u) == [fmt |-> "hyphenated", hex |-> u]

\* Uuid::parse_str
ParseStr(s) == IF s.fmt \in UuidFormats THEN Ok(s.hex) ELSE Err("uuid::Error")

\* free text that is no UUID (an id of the wire schema as the generator wrote it)
RawString(k) == [fmt |-> "text", hex |-> k]

\* the k-th value Uuid::new_v4() returns: never a value minted before, never an input's
NewUuid(k) == 100 + k

----------------------------------------------------------------------------
(* The data model *)

Node(i, l) == [id |-> i, label |-> l]

Citation(i) == [id |-> i, title |-> "title", label |-> "label", text |-> "text"]

Hyperedge(i, l, s, t, c) ==
    [id |-> i, label |-> l, source |-> s, target |-> t, citations |-> c]

Olog(i, ttl, ns, hs) == [id |-> i, title |-> ttl, nodes |-> ns, hyperedges |-> hs]

----------------------------------------------------------------------------
(* The store: create_olog_tables *)

EmptyStore ==
    [Ologs |-> <<>>, Nodes |-> <<>>, Hyperedges |-> <<>>, Citations |-> <<>>,
     Hyperedge_Links |-> <<>>, Citation_Links |-> <<>>]

\* the PRIMARY KEY column of the tables that have one
PrimaryKey ==
    [Ologs |-> "olog_id", Nodes |-> "node_id", Hyperedges |-> "hyperedge_id",
     Citations |-> "citation_id"]

\* INSERT OR REPLACE INTO t: a row with the same primary key is deleted and the new
\* row gets the next rowid; a table without a key just grows
InsertOrReplace(db, t, row) ==
    IF t \in DOMAIN PrimaryKey
    THEN [db EXCEPT ![t] = Append(SelectSeq(@, LAMBDA r : r[PrimaryKey[t]] # row[PrimaryKey[t]]), row)]
    ELSE [db EXCEPT ![t] = Append(@, row)]

----------------------------------------------------------------------------
(* write_olog_to_db *)

Stmt(t, row) == [table |-> t, row |-> row]

\* the link row written without its type (every link a source)
LinkStatementUntyped(h, n, type) ==
    Stmt("Hyperedge_Links",
         [hyperedge_id |-> UuidToString(h.id), node_id |-> UuidToString(n.id), type |-> "source"])

LinkStatement(h, n, type) ==
    Stmt("Hyperedge_Links",
         [hyperedge_id |-> UuidToString(h.id), node_id |-> UuidToString(n.id), type |-> type])

CitationStatements(h, c) ==
    << Stmt("Citations", [citation_id |-> UuidToString(c.id), title |-> c.title,
                          label |-> c.label, text |-> c.text]),
       Stmt("Citation_Links", [hyperedge_id |-> UuidToString(h.id),
                               citation_id |-> UuidToString(c.id)]) >>

HyperedgeStatements(olog, h) ==
    << Stmt("Hyperedges", [hyperedge_id |-> UuidToString(h.id), label |-> h.label,
                           olog_id |-> UuidToString(olog.id)]) >>
    \o Flatten(SeqMap(LAMBDA c : CitationStatements(h, c), h.citations))
    \o SeqMap(LAMBDA n : LinkStatement(h, n, "source"), h.source)
    \o SeqMap(LAMBDA n : LinkStatement(h, n, "target"), h.target)

\* the statements of one write, in the order the function executes them
WriteStatements(olog) ==
    << Stmt("Ologs", [olog_id |-> UuidToString(olog.id), title |-> olog.title]) >>
    \o SeqMap(LAMBDA n : Stmt("Nodes", [node_id |-> UuidToString(n.id), label |-> n.label,
                                        olog_id |-> UuidToString(olog.id)]), olog.nodes)
    \o Flatten(SeqMap(LAMBDA h : HyperedgeStatements(olog, h), olog.hyperedges))

RECURSIVE ExecuteAll(_, _)
ExecuteAll(db, stmts) ==
    IF stmts = <<>> THEN db
    ELSE ExecuteAll(InsertOrReplace(db, Head(stmts).table, Head(stmts).row), Tail(stmts))

\* BEGIN TRANSACTION ... COMMIT with every statement succeeding
write_olog_to_db(db, olog) == ExecuteAll(db, WriteStatements(olog))

----------------------------------------------------------------------------
(* delete_olog_from_db *)

\* a delete that cascades to the Olog's node rows
delete_cascading(db, olog_id) ==
    [db EXCEPT !.Ologs = SelectSeq(@, LAMBDA r : r.olog_id # UuidToString(olog_id)),
               !.Nodes = SelectSeq(@, LAMBDA r : r.olog_id # UuidToString(olog_id))]

delete_olog_from_db(db, olog_id) ==
    [db EXCEPT !.Ologs = SelectSeq(@, LAMBDA r : r.olog_id # UuidToString(olog_id))]

----------------------------------------------------------------------------
(* read_olog_from_db *)

\* SELECT node_id, label FROM Nodes WHERE olog_id = ?1, rows that fail to parse dropped
ReadNodes(db, olog_id) ==
    LET rows == SelectSeq(db.Nodes, LAMBDA r : r.olog_id = UuidToString(olog_id))
        results == SeqMap(LAMBDA r : IF ParseStr(r.node_id).ok
                                     THEN Ok(Node(ParseStr(r.node_id).val, r.label))
                                     ELSE Err("InvalidQuery"), rows)
    IN  SeqMap(LAMBDA x : x.val, SelectSeq(results, LAMBDA x : x.ok))

\* the citations joined to a hyperedge through Citation_Links
ReadCitations(db, hyperedge_id) ==
    LET links == SelectSeq(db.Citation_Links,
                           LAMBDA l : l.hyperedge_id = UuidToString(hyperedge_id))
        joined == Flatten(SeqMap(LAMBDA l : SelectSeq(db.Citations,
                                     LAMBDA c : c.citation_id = l.citation_id), links))
    IN  CollectResults(SeqMap(LAMBDA c : IF ParseStr(c.citation_id).ok
                                         THEN Ok([id |-> ParseStr(c.citation_id).val,
                                                  title |-> c.title, label |-> c.label,
                                                  text |-> c.text])
                                         ELSE Err("InvalidQuery"), joined))

\* a lookup that makes up a node for an id the Olog does not own
FindNodeLenient(nodes, node_id) ==
    IF \E i \in 1..Len(nodes) : nodes[i].id = node_id
    THEN Ok(nodes[CHOOSE i \in 1..Len(nodes) :
                    nodes[i].id = node_id /\ \A j \in 1..(i-1) : nodes[j].id # node_id])
    ELSE Ok(Node(node_id, ""))

\* nodes.iter().find(|n| n.id == node_id).cloned().ok_or(QueryReturnedNoRows)
FindNode(nodes, node_id) ==
    IF \E i \in 1..Len(nodes) : nodes[i].id = node_id
    THEN Ok(nodes[CHOOSE i \in 1..Len(nodes) :
                    nodes[i].id = node_id /\ \A j \in 1..(i-1) : nodes[j].id # node_id])
    ELSE Err("QueryReturnedNoRows")

\* SELECT node_id FROM Hyperedge_Links WHERE hyperedge_id = ?1 AND type = ..., resolved
ReadLinks(db, nodes, hyperedge_id, type) ==
    LET rows == SelectSeq(db.Hyperedge_Links,
                          LAMBDA l : l.hyperedge_id = UuidToString(hyperedge_id)
                                     /\ l.type = type)
    IN  CollectResults(SeqMap(LAMBDA l : IF ParseStr(l.node_id).ok
                                         THEN FindNode(nodes, ParseStr(l.node_id).val)
                                         ELSE Err("InvalidQuery"), rows))

ReadHyperedge(db, nodes, row) ==
    LET id == ParseStr(row.hyperedge_id) IN
    IF ~id.ok THEN Err("InvalidQuery") ELSE
    LET citations == ReadCitations(db, id.val) IN
    IF ~citations.ok THEN citations ELSE
    LET sources == ReadLinks(db, nodes, id.val, "source") IN
    IF ~sources.ok THEN sources ELSE
    LET targets == ReadLinks(db, nodes, id.val, "target") IN
    IF ~targets.ok THEN targets ELSE
    Ok(Hyperedge(id.val, row.label, sources.val, targets.val, citations.val))

read_olog_from_db(db, olog_id) ==
    LET titles == SelectSeq(db.Ologs, LAMBDA r : r.olog_id = UuidToString(olog_id)) IN
    IF titles = <<>> THEN Err("QueryReturnedNoRows") ELSE
    LET nodes == ReadNodes(db, olog_id)
        rows == SelectSeq(db.Hyperedges, LAMBDA r : r.olog_id = UuidToString(olog_id))
        hyperedges == CollectResults(SeqMap(LAMBDA r : ReadHyperedge(db, nodes, r), rows))
    IN  IF ~hyperedges.ok THEN hyperedges
        ELSE Ok(Olog(olog_id, titles[1].title, nodes, hyperedges.val))

----------------------------------------------------------------------------
(* merge_ologs *)

\* a HashMap is kept as its entries in insertion order; its iteration order is any

\* HashMap::insert(k, v): the value of a key already present is overwritten
InsertOverwrite(map, k, v) ==
    IF \E i \in 1..Len(map) : map[i].key = k
    THEN [i \in 1..Len(map) |-> IF map[i].key = k THEN [key |-> k, value |-> v] ELSE map[i]]
    ELSE Append(map, [key |-> k, value |-> v])

\* HashMap::entry(k).or_insert(v): the value of a key already present is kept
OrInsert(map, k, v) ==
    IF \E i \in 1..Len(map) : map[i].key = k THEN map
    ELSE Append(map, [key |-> k, value |-> v])

RECURSIVE OrInsertAll(_, _)
OrInsertAll(map, entries) ==
    IF entries = <<>> THEN map
    ELSE OrInsertAll(OrInsert(map, Head(entries).key, Head(entries).value), Tail(entries))

\* HashMap::values().cloned().collect(): the values, in any order
Values(map) == Perms(SeqMap(LAMBDA e : e.value, map))

\* the same loop with olog2's nodes chained before olog1's
MergeNodeMapSecondFirst(olog1, olog2) ==
    OrInsertAll(<<>>, SeqMap(LAMBDA n : [key |-> n.label, value |-> n],
                             olog2.nodes \o olog1.nodes))

\* node_map after the loop over olog1.nodes chained with olog2.nodes
MergeNodeMap(olog1, olog2) ==
    OrInsertAll(<<>>, SeqMap(LAMBDA n : [key |-> n.label, value |-> n],
                             olog1.nodes \o olog2.nodes))

\* merged_nodes.iter().find(|n| n.label == label).cloned()
find_node_by_label(merged_nodes, label) ==
    LET hits == SelectSeq(merged_nodes, LAMBDA n : n.label = label)
    IN  IF hits = <<>> THEN <<>> ELSE <<hits[1]>>

\* side.iter().filter_map(|node| find_node_by_label(&node.label)).collect()
ResolveByLabel(merged_nodes, side) ==
    Flatten(SeqMap(LAMBDA n : find_node_by_label(merged_nodes, n.label), side))

\* the same key without the hyperedge label
KeyWithoutLabel(label, source_nodes, target_nodes) == <<source_nodes, target_nodes>>

\* hyperedge_key
HyperedgeKey(label, source_nodes, target_nodes) == <<label, source_nodes, target_nodes>>

\* the same loop with olog2's hyperedges chained before olog1's
MergeHyperedgeMapSecondFirst(olog1, olog2, merged_nodes, k) ==
    LET chain == olog2.hyperedges \o olog1.hyperedges
        entry(i) ==
            LET source_nodes == ResolveByLabel(merged_nodes, chain[i].source)
                target_nodes == ResolveByLabel(merged_nodes, chain[i].target)
            IN  [key |-> HyperedgeKey(chain[i].label, source_nodes, target_nodes),
                 value |-> Hyperedge(NewUuid(k + i - 1), chain[i].label, source_nodes,
                                     target_nodes, chain[i].citations)]
    IN  OrInsertAll(<<>>, [i \in 1..Len(chain) |-> entry(i)])

\* hyperedge_map after the loop over olog1.hyperedges chained with olog2.hyperedges;
\* the i-th hyperedge of the chain is offered with the (k+i)-th fresh UUID
MergeHyperedgeMap(olog1, olog2, merged_nodes, k) ==
    LET chain == olog1.hyperedges \o olog2.hyperedges
        entry(i) ==
            LET source_nodes == ResolveByLabel(merged_nodes, chain[i].source)
                target_nodes == ResolveByLabel(merged_nodes, chain[i].target)
            IN  [key |-> HyperedgeKey(chain[i].label, source_nodes, target_nodes),
                 value |-> Hyperedge(NewUuid(k + i - 1), chain[i].label, source_nodes,
                                     target_nodes, chain[i].citations)]
    IN  OrInsertAll(<<>>, [i \in 1..Len(chain) |-> entry(i)])

\* every Olog merge_ologs(olog1, olog2) can return when k UUIDs were minted before
merge_ologs(olog1, olog2, k) ==
    UNION {{Olog(olog1.id, olog1.title, merged_nodes, hyperedges) :
                hyperedges \in Values(MergeHyperedgeMap(olog1, olog2, merged_nodes, k))} :
           merged_nodes \in Values(MergeNodeMap(olog1, olog2))}

\* how many times merge_ologs calls Uuid::new_v4()
MergeMinted(olog1, olog2) == Len(olog1.hyperedges) + Len(olog2.hyperedges)

----------------------------------------------------------------------------
(* The store commands: the Ologs a caller hands to write_olog_to_db *)

MaxOps == 3

StoreOlogIds == {1, 2}

\* the nodes of the k-th generated document
ContentNodes(k) ==
    IF k = 1 THEN <<Node(11, "Cat"), Node(12, "Animal")>>
             ELSE <<Node(21, "Cat"), Node(22, "Mammal")>>

\* the hyperedge lists of the k-th document, over its nodes a and b: none; one binary
\* edge; one edge with two sources and one target; two edges that carry the same id
ContentHyperedges(k) ==
    LET a == ContentNodes(k)[1]
        b == ContentNodes(k)[2]
        c == Citation(30 + k)
    IN  << <<>>,
           <<Hyperedge(40 + k, "is-a", <<a>>, <<b>>, <<c>>)>>,
           <<Hyperedge(40 + k, "is-a", <<a, b>>, <<b>>, <<c>>)>>,
           <<Hyperedge(40 + k, "is-a", <<a>>, <<b>>, <<c>>),
             Hyperedge(40 + k, "has", <<b>>, <<>>, <<>>)>> >>

StoreOlog(i, k, s) ==
    Olog(i, IF i = 1 THEN "A" ELSE "B", ContentNodes(k), ContentHyperedges(k)[s])

\* Olog 1 holds document 1; Olog 2 holds document 2, or document 1 again (the ids of
\* Olog 1's nodes and hyperedges under another Olog id); and an Olog whose two nodes
\* carry the same id
StoreOlogs ==
    {StoreOlog(1, 1, s) : s \in 1..4}
    \cup {StoreOlog(2, 2, s) : s \in {1, 2}}
    \cup {StoreOlog(2, 1, s) : s \in {2, 4}}
    \cup {Olog(1, "A", <<Node(11, "Cat"), Node(11, "Animal")>>,
               <<Hyperedge(41, "is-a", <<Node(11, "Cat")>>, <<>>, <<>>)>>)}

----------------------------------------------------------------------------
(* The store commands *)

Init ==
    /\ store = EmptyStore
    /\ fresh = 0
    /\ ops = 0
    /\ call = [fn |-> "none"]

\* write_olog_to_db(&olog), as generate-olog and process-paper call it
WriteOlog(olog) ==
    /\ ops < MaxOps
    /\ store' = write_olog_to_db(store, olog)
    /\ ops' = ops + 1
    /\ call' = [fn |-> "write_olog_to_db", olog |-> olog, before |-> store]
    /\ UNCHANGED fresh

\* read_olog_from_db(olog_id), as read-db and olog-json call it
ReadOlog(olog_id) ==
    /\ call' = [fn |-> "read_olog_from_db", olog_id |-> olog_id,
                result |-> read_olog_from_db(store, olog_id)]
    /\ UNCHANGED <<store, fresh, ops>>

\* delete_olog_from_db(olog_id)
DeleteOlog(olog_id) ==
    /\ ops < MaxOps
    /\ store' = delete_olog_from_db(store, olog_id)
    /\ ops' = ops + 1
    /\ call' = [fn |-> "delete_olog_from_db", olog_id |-> olog_id, before |-> store]
    /\ UNCHANGED fresh

\* the merge-ologs command of main: read both, merge, delete both, write the merge
MergeOlogs(id1, id2) ==
    LET olog1 == read_olog_from_db(store, id1)
        olog2 == read_olog_from_db(store, id2)
    IN  IF ~olog1.ok \/ ~olog2.ok
        THEN /\ call' = [fn |-> "merge-ologs", id1 |-> id1, id2 |-> id2, ok |-> FALSE,
                         error |-> IF ~olog1.ok THEN olog1.err ELSE olog2.err]
             /\ UNCHANGED <<store, fresh, ops>>
        ELSE /\ ops < MaxOps
             /\ \E merged_olog \in merge_ologs(olog1.val, olog2.val, fresh) :
                  /\ store' = write_olog_to_db(
                                 delete_olog_from_db(delete_olog_from_db(store, id1), id2),
                                 merged_olog)
                  /\ call' = [fn |-> "merge-ologs", id1 |-> id1, id2 |-> id2, ok |-> TRUE,
                              olog1 |-> olog1.val, olog2 |-> olog2.val,
                              merged |-> merged_olog, before |-> store]
             /\ fresh' = fresh + MergeMinted(olog1.val, olog2.val)
             /\ ops' = ops + 1

Next ==
    \/ \E olog \in StoreOlogs : WriteOlog(olog)
    \/ \E olog_id \in StoreOlogIds : ReadOlog(olog_id)
    \/ \E olog_id \in StoreOlogIds : DeleteOlog(olog_id)
    \/ \E id1 \in StoreOlogIds, id2 \in StoreOlogIds : MergeOlogs(id1, id2)

Spec == Init /\ [][Next]_vars

----------------------------------------------------------------------------
(* merge_ologs called on two Ologs *)

MaxNodes == 2

MaxEdges == 1

MaxSelfEdges == 2

MergeLabels == {"Cat", "Animal"}

\* the sequences over S of length at most n
SeqsUpTo(S, n) == UNION {[1..m -> S] : m \in 0..n}

\* the node list of the k-th Olog with the given labels: the i-th node has id 10k + i
NodesLabelled(k, labels) == [i \in 1..Len(labels) |-> Node(10 * k + i, labels[i])]

\* the node a hyperedge of the k-th Olog means by a label: the Olog's first node with
\* that label, or a node the Olog does not hold (the hyperedge is then not closed)
NodeMeant(k, nodes, label) ==
    IF find_node_by_label(nodes, label) # <<>> THEN find_node_by_label(nodes, label)[1]
    ELSE Node(90 + k, label)

\* a relation label with the labels of its sources and of its targets
EdgeShapes ==
    { <<"is-a", <<"Cat">>, <<"Animal">> >>,
      <<"is-a", <<"Cat">>, <<"Animal", "Cat">> >>,
      <<"is-a", <<"Cat">>, <<"Cat", "Animal">> >>,
      <<"has", <<"Cat">>, <<"Animal">> >> }

\* the hyperedge list of the k-th Olog with the given shapes: the j-th hyperedge has
\* id 10k + j and its own citation
EdgesShaped(k, nodes, shapes) ==
    [j \in 1..Len(shapes) |->
        Hyperedge(10 * k + j, shapes[j][1],
                  SeqMap(LAMBDA l : NodeMeant(k, nodes, l), shapes[j][2]),
                  SeqMap(LAMBDA l : NodeMeant(k, nodes, l), shapes[j][3]),
                  <<Citation(10 * k + j)>>)]

\* the Ologs handed to merge_ologs as its k-th argument, closed or not
MergeInputs(k, maxEdges) ==
    {Olog(k, IF k = 1 THEN "A" ELSE "B", NodesLabelled(k, labels),
          EdgesShaped(k, NodesLabelled(k, labels), shapes)) :
        labels \in SeqsUpTo(MergeLabels, MaxNodes), shapes \in SeqsUpTo(EdgeShapes, maxEdges)}

InitMerge ==
    /\ store = EmptyStore
    /\ fresh = 0
    /\ ops = 0
    /\ \E olog1 \in MergeInputs(1, MaxEdges), olog2 \in MergeInputs(2, MaxEdges) :
           call = [fn |-> "merge_ologs?", olog1 |-> olog1, olog2 |-> olog2]

\* merge_ologs(olog1, olog2)
Merge ==
    /\ call.fn = "merge_ologs?"
    /\ \E merged \in merge_ologs(call.olog1, call.olog2, fresh) :
           call' = [fn |-> "merge_ologs", olog1 |-> call.olog1, olog2 |-> call.olog2,
                    result |-> merged]
    /\ fresh' = fresh + MergeMinted(call.olog1, call.olog2)
    /\ UNCHANGED <<store, ops>>

NextMerge == Merge

SpecMerge == InitMerge /\ [][NextMerge]_vars

----------------------------------------------------------------------------
(* merge_ologs called on an Olog and a copy of it *)

\* the same Olog generated again: the same labels in the same order under other ids
Regenerated(olog) ==
    LET node(n) == Node(n.id + 50, n.label)
    IN  Olog(olog.id + 50, olog.title, SeqMap(node, olog.nodes),
             SeqMap(LAMBDA h : Hyperedge(h.id + 50, h.label, SeqMap(node, h.source),
                                         SeqMap(node, h.target), h.citations),
                    olog.hyperedges))

InitSelfMerge ==
    /\ store = EmptyStore
    /\ fresh = 0
    /\ ops = 0
    /\ \E olog \in MergeInputs(1, MaxSelfEdges) :
           call = [fn |-> "merge_ologs(G, G)?", olog |-> olog]

\* merge_ologs(G, G), as merge-ologs ID ID reads the same Olog twice
MergeWithItself ==
    /\ call.fn = "merge_ologs(G, G)?"
    /\ \E merged \in merge_ologs(call.olog, call.olog, fresh) :
           call' = [fn |-> "merge_ologs(G, G)", olog |-> call.olog, copy |-> call.olog,
                    result |-> merged]
    /\ fresh' = fresh + MergeMinted(call.olog, call.olog)
    /\ UNCHANGED <<store, ops>>

\* merge_ologs(G, G'), G' generated again from the same document
MergeWithCopy ==
    /\ call.fn = "merge_ologs(G, G)?"
    /\ \E merged \in merge_ologs(call.olog, Regenerated(call.olog), fresh) :
           call' = [fn |-> "merge_ologs(G, G)", olog |-> call.olog,
                    copy |-> Regenerated(call.olog), result |-> merged]
    /\ fresh' = fresh + MergeMinted(call.olog, Regenerated(call.olog))
    /\ UNCHANGED <<store, ops>>

NextSelfMerge == MergeWithItself \/ MergeWithCopy

SpecSelfMerge == InitSelfMerge /\ [][NextSelfMerge]_vars

----------------------------------------------------------------------------
(* replace_ids_with_uuids *)

MapHas(map, k) == \E i \in 1..Len(map) : map[i].key = k

MapGet(map, k) == map[CHOOSE i \in 1..Len(map) : map[i].key = k].value

\* an id map that mints a UUID for every occurrence, also of a string it has seen
EntryAlwaysMint(st, key) ==
    [map |-> InsertOverwrite(st.map, key, NewUuid(st.minted)), minted |-> st.minted + 1,
     uuid |-> NewUuid(st.minted)]

\* *id_map.entry(key).or_insert_with(Uuid::new_v4): st is the map and the number of
\* UUIDs minted so far; a UUID is minted only for a string the map does not hold
EntryOrInsertWith(st, key) ==
    IF MapHas(st.map, key)
    THEN [map |-> st.map, minted |-> st.minted, uuid |-> MapGet(st.map, key)]
    ELSE [map |-> Append(st.map, [key |-> key, value |-> NewUuid(st.minted)]),
          minted |-> st.minted + 1, uuid |-> NewUuid(st.minted)]

\* a list of ids rewritten in place, left to right
RECURSIVE RewriteIds(_, _)
RewriteIds(ids, st) ==
    IF ids = <<>> THEN [ids |-> <<>>, map |-> st.map, minted |-> st.minted]
    ELSE LET e == EntryOrInsertWith(st, Head(ids))
             rest == RewriteIds(Tail(ids), [map |-> e.map, minted |-> e.minted])
         IN  [ids |-> <<UuidToString(e.uuid)>> \o rest.ids, map |-> rest.map,
              minted |-> rest.minted]

\* the loop over olog.hyperedges: the id, then the sources, then the targets of each
RECURSIVE RewriteHyperedges(_, _)
RewriteHyperedges(hyperedges, st) ==
    IF hyperedges = <<>> THEN [hyperedges |-> <<>>, map |-> st.map, minted |-> st.minted]
    ELSE LET h == Head(hyperedges)
             id == RewriteIds(<<h.id>>, st)
             sources == RewriteIds(h.sources, [map |-> id.map, minted |-> id.minted])
             targets == RewriteIds(h.targets, [map |-> sources.map, minted |-> sources.minted])
             rest == RewriteHyperedges(Tail(hyperedges),
                                       [map |-> targets.map, minted |-> targets.minted])
         IN  [hyperedges |-> << [id |-> id.ids[1], label |-> h.label,
                                 sources |-> sources.ids, targets |-> targets.ids] >>
                             \o rest.hyperedges,
              map |-> rest.map, minted |-> rest.minted]

\* the whole pass, k UUIDs minted before it: the rewritten schema and the new count
ReplaceIds(olog, k) ==
    LET nodes == RewriteIds(SeqMap(LAMBDA n : n.id, olog.nodes), [map |-> <<>>, minted |-> k])
        hyperedges == RewriteHyperedges(olog.hyperedges,
                                        [map |-> nodes.map, minted |-> nodes.minted])
    IN  [json |-> [title |-> olog.title,
                   nodes |-> [i \in 1..Len(olog.nodes) |->
                                 [id |-> nodes.ids[i], label |-> olog.nodes[i].label]],
                   hyperedges |-> hyperedges.hyperedges],
         minted |-> hyperedges.minted]

replace_ids_with_uuids(olog, k) == ReplaceIds(olog, k).json

----------------------------------------------------------------------------
(* convert_json_olog_to_olog *)

\* the loop over json_olog.nodes: id_map (in st) and node_map
RECURSIVE ConvertNodes(_, _, _)
ConvertNodes(json_nodes, st, node_map) ==
    IF json_nodes = <<>> THEN [map |-> st.map, minted |-> st.minted, node_map |-> node_map]
    ELSE LET e == EntryOrInsertWith(st, Head(json_nodes).id)
         IN  ConvertNodes(Tail(json_nodes), [map |-> e.map, minted |-> e.minted],
                          InsertOverwrite(node_map, e.uuid, Node(e.uuid, Head(json_nodes).label)))

\* ids.iter().filter_map(|id| id_map.get(id).and_then(|&uuid| node_map.get(&uuid).cloned()))
ResolveIds(ids, id_map, node_map) ==
    SeqMap(LAMBDA id : MapGet(node_map, MapGet(id_map, id)),
           SelectSeq(ids, LAMBDA id : MapHas(id_map, id) /\ MapHas(node_map, MapGet(id_map, id))))

\* the map over json_olog.hyperedges
RECURSIVE ConvertHyperedges(_, _, _, _)
ConvertHyperedges(json_hyperedges, st, node_map, citation) ==
    IF json_hyperedges = <<>> THEN [hyperedges |-> <<>>, minted |-> st.minted]
    ELSE LET h == Head(json_hyperedges)
             e == EntryOrInsertWith(st, h.id)
             rest == ConvertHyperedges(Tail(json_hyperedges),
                                       [map |-> e.map, minted |-> e.minted], node_map, citation)
         IN  [hyperedges |-> << Hyperedge(e.uuid, h.label,
                                          ResolveIds(h.sources, e.map, node_map),
                                          ResolveIds(h.targets, e.map, node_map),
                                          <<citation>>) >> \o rest.hyperedges,
              minted |-> rest.minted]

\* how many UUIDs the conversion mints: one per distinct id string, one for the Olog
ConvertMinted(json_olog) ==
    Cardinality({n.id : n \in Range(json_olog.nodes)}
                \cup {h.id : h \in Range(json_olog.hyperedges)}) + 1

\* every Olog the conversion can return when k UUIDs were minted before
convert_json_olog_to_olog(json_olog, citation, k) ==
    LET n == ConvertNodes(json_olog.nodes, [map |-> <<>>, minted |-> k], <<>>)
        h == ConvertHyperedges(json_olog.hyperedges, [map |-> n.map, minted |-> n.minted],
                               n.node_map, citation)
    IN  {Olog(NewUuid(h.minted), json_olog.title, nodes, h.hyperedges) :
            nodes \in Values(n.node_map)}

----------------------------------------------------------------------------
(* convert_olog_to_json *)

\* the flattening with each hyperedge's targets written from its sources
convert_olog_to_json_sources_twice(olog) ==
    [title |-> olog.title,
     nodes |-> SeqMap(LAMBDA n : [id |-> UuidToString(n.id), label |-> n.label], olog.nodes),
     hyperedges |-> SeqMap(LAMBDA h : [id |-> UuidToString(h.id), label |-> h.label,
                                       sources |-> SeqMap(LAMBDA n : UuidToString(n.id), h.source),
                                       targets |-> SeqMap(LAMBDA n : UuidToString(n.id), h.source)],
                           olog.hyperedges)]

convert_olog_to_json(olog) ==
    [title |-> olog.title,
     nodes |-> SeqMap(LAMBDA n : [id |-> UuidToString(n.id), label |-> n.label], olog.nodes),
     hyperedges |-> SeqMap(LAMBDA h : [id |-> UuidToString(h.id), label |-> h.label,
                                       sources |-> SeqMap(LAMBDA n : UuidToString(n.id), h.source),
                                       targets |-> SeqMap(LAMBDA n : UuidToString(n.id), h.target)],
                           olog.hyperedges)]

----------------------------------------------------------------------------
(* The wire schema through the generation pipeline *)

MaxWireNodes == 2

MaxWireEdges == 2

\* the id strings the generator writes
RawIds == {RawString(1), RawString(2)}

WireLabels == {"Cat", "Animal"}

WireNodes == {[id |-> i, label |-> l] : i \in RawIds, l \in WireLabels}

\* a hyperedge under either id: one source and one target; two sources and a target;
\* the two sources in the other order
WireHyperedges ==
    {[id |-> i, label |-> r[1], sources |-> r[2], targets |-> r[3]] :
        i \in RawIds,
        r \in { <<"is-a", <<RawString(1)>>, <<RawString(2)>> >>,
                <<"has", <<RawString(1), RawString(2)>>, <<RawString(1)>> >>,
                <<"is-a", <<RawString(2), RawString(1)>>, <<>> >> }}

\* the schemas serde_json::from_str can return: ids repeat and references dangle
WireSchemas ==
    {[title |-> "T", nodes |-> ns, hyperedges |-> hs] :
        ns \in SeqsUpTo(WireNodes, MaxWireNodes), hs \in SeqsUpTo(WireHyperedges, MaxWireEdges)}

InitWire ==
    /\ store = EmptyStore
    /\ fresh = 0
    /\ ops = 0
    /\ \E s \in WireSchemas : call = [fn |-> "generate_olog?", raw |-> s]

\* replace_ids_with_uuids(olog_schema)
Canonicalize ==
    /\ call.fn = "generate_olog?"
    /\ call' = [fn |-> "replace_ids_with_uuids", raw |-> call.raw,
                schema |-> replace_ids_with_uuids(call.raw, fresh)]
    /\ fresh' = ReplaceIds(call.raw, fresh).minted
    /\ UNCHANGED <<store, ops>>

\* convert_json_olog_to_olog(olog_schema_uuid, citation) after the canonicalization
ConvertCanonical ==
    /\ call.fn = "replace_ids_with_uuids"
    /\ \E olog \in convert_json_olog_to_olog(call.schema, Citation(61), fresh) :
           call' = [fn |-> "convert_json_olog_to_olog", raw |-> call.raw,
                    schema |-> call.schema, canonical |-> TRUE, olog |-> olog]
    /\ fresh' = fresh + ConvertMinted(call.schema)
    /\ UNCHANGED <<store, ops>>

\* convert_json_olog_to_olog(s, citation) on a schema as the generator wrote it
ConvertRaw ==
    /\ call.fn = "generate_olog?"
    /\ \E olog \in convert_json_olog_to_olog(call.raw, Citation(61), fresh) :
           call' = [fn |-> "convert_json_olog_to_olog", raw |-> call.raw,
                    schema |-> call.raw, canonical |-> FALSE, olog |-> olog]
    /\ fresh' = fresh + ConvertMinted(call.raw)
    /\ UNCHANGED <<store, ops>>

\* convert_olog_to_json(&olog)
ToJson ==
    /\ call.fn = "convert_json_olog_to_olog"
    /\ call' = [fn |-> "convert_olog_to_json", raw |-> call.raw, schema |-> call.schema,
                canonical |-> call.canonical, olog |-> call.olog,
                json |-> convert_olog_to_json(call.olog)]
    /\ UNCHANGED <<store, fresh, ops>>

NextWire == Canonicalize \/ ConvertCanonical \/ ConvertRaw \/ ToJson

SpecWire == InitWire /\ [][NextWire]_vars

----------------------------------------------------------------------------
(* Properties of Ologs used by the claims *)

\* referential closure: every node of a source or target sequence is a node of the Olog
Closed(olog) ==
    \A i \in 1..Len(olog.hyperedges) :
        Range(olog.hyperedges[i].source) \cup Range(olog.hyperedges[i].target)
            \subseteq Range(olog.nodes)

\* no two nodes of the Olog share an id, no two hyperedges of the Olog share an id
DistinctIds(olog) ==
    /\ \A i, j \in 1..Len(olog.nodes) : olog.nodes[i].id = olog.nodes[j].id => i = j
    /\ \A i, j \in 1..Len(olog.hyperedges) :
           olog.hyperedges[i].id = olog.hyperedges[j].id => i = j

NodeIdsOf(olog) == {UuidToString(olog.nodes[i].id) : i \in 1..Len(olog.nodes)}

HyperedgeIdsOf(olog) == {UuidToString(olog.hyperedges[i].id) : i \in 1..Len(olog.hyperedges)}

CitationIdsOf(olog) ==
    UNION {{UuidToString(c.id) : c \in Range(olog.hyperedges[i].citations)} :
           i \in 1..Len(olog.hyperedges)}

\* no row of the store names an id of the Olog, in any column
NoRowsWithIds(db, olog) ==
    /\ \A r \in Range(db.Ologs) : r.olog_id # UuidToString(olog.id)
    /\ \A r \in Range(db.Nodes) :
           r.node_id \notin NodeIdsOf(olog) /\ r.olog_id # UuidToString(olog.id)
    /\ \A r \in Range(db.Hyperedges) :
           r.hyperedge_id \notin HyperedgeIdsOf(olog) /\ r.olog_id # UuidToString(olog.id)
    /\ \A r \in Range(db.Citations) : r.citation_id \notin CitationIdsOf(olog)
    /\ \A r \in Range(db.Hyperedge_Links) :
           r.hyperedge_id \notin HyperedgeIdsOf(olog) /\ r.node_id \notin NodeIdsOf(olog)
    /\ \A r \in Range(db.Citation_Links) :
           r.hyperedge_id \notin HyperedgeIdsOf(olog) /\ r.citation_id \notin CitationIdsOf(olog)

\* a hyperedge with its citations as a set
HyperedgeView(h) == [h EXCEPT !.citations = Range(@)]

HyperedgeSet(olog) == {HyperedgeView(olog.hyperedges[i]) : i \in 1..Len(olog.hyperedges)}

\* equal up to the order of nodes, of hyperedges and of each hyperedge's citations
SameOlog(x, y) ==
    /\ x.id = y.id
    /\ x.title = y.title
    /\ Range(x.nodes) = Range(y.nodes)
    /\ HyperedgeSet(x) = HyperedgeSet(y)

RoundTrips(db, olog) ==
    /\ read_olog_from_db(db, olog.id).ok
    /\ SameOlog(read_olog_from_db(db, olog.id).val, olog)
    /\ Len(read_olog_from_db(db, olog.id).val.hyperedges) = Len(olog.hyperedges)

----------------------------------------------------------------------------
(* C1: store round-trip *)

----------------------------------------------------------------------------
(* C2: the merge-ologs command *)

\* C2: after merge-ologs has succeeded on two stored Ologs A and B, reading B's id
\* yields NotFound and reading A's id returns exactly the Olog merge_ologs computed,
\* with no hyperedge of the Ologs read before the merge left over.
C2_OnlyMergedPersists ==
    (call.fn = "merge-ologs" /\ call.ok /\ call.id1 # call.id2)
    => /\ read_olog_from_db(store, call.id2) = Err("QueryReturnedNoRows")
       /\ read_olog_from_db(store, call.id1).ok
       /\ SameOlog(read_olog_from_db(store, call.id1).val, call.merged)

----------------------------------------------------------------------------
(* C10: delete *)

\* C10: after delete_olog_from_db(id) on a stored Olog, reading id yields NotFound
\* (QueryReturnedNoRows), the rows of Nodes, Hyperedges, Citations, Hyperedge_Links and
\* Citation_Links are what they were, and so is every other row of Ologs.
C10_DeleteRemovesOnlyOlogRow ==
    (call.fn = "delete_olog_from_db"
        /\ \E r \in Range(call.before.Ologs) : r.olog_id = UuidToString(call.olog_id))
    => /\ read_olog_from_db(store, call.olog_id) = Err("QueryReturnedNoRows")
       /\ \A t \in {"Nodes", "Hyperedges", "Citations", "Hyperedge_Links", "Citation_Links"} :
              store[t] = call.before[t]
       /\ store.Ologs = SelectSeq(call.before.Ologs,
                                  LAMBDA r : r.olog_id # UuidToString(call.olog_id))

\* a stored Olog with nodes and a hyperedge was deleted while another Olog is stored
C10_Witness ==
    /\ call.fn = "delete_olog_from_db"
    /\ read_olog_from_db(call.before, call.olog_id).ok
    /\ read_olog_from_db(call.before, call.olog_id).val.hyperedges # <<>>
    /\ read_olog_from_db(call.before, call.olog_id).val.nodes # <<>>
    /\ store.Ologs # <<>>
    /\ read_olog_from_db(store, call.olog_id) = Err("QueryReturnedNoRows")

----------------------------------------------------------------------------
(* What merge_ologs is to return, said from its arguments alone *)

FirstIndex(seq, P(_)) == CHOOSE i \in 1..Len(seq) : P(seq[i]) /\ \A j \in 1..(i-1) : ~P(seq[j])

\* the first node carrying the label in olog1's nodes followed by olog2's
FirstWithLabel(olog1, olog2, label) ==
    (olog1.nodes \o olog2.nodes)[FirstIndex(olog1.nodes \o olog2.nodes,
                                            LAMBDA n : n.label = label)]

NodeLabels(olog1, olog2) == {n.label : n \in Range(olog1.nodes \o olog2.nodes)}

\* a source or target sequence resolved by label: the nodes whose label no node of
\* either Olog carries are dropped, the others become the first node with their label
Resolved(olog1, olog2, side) ==
    SeqMap(LAMBDA n : FirstWithLabel(olog1, olog2, n.label),
           SelectSeq(side, LAMBDA n : n.label \in NodeLabels(olog1, olog2)))

KeyOf(olog1, olog2, h) ==
    <<h.label, Resolved(olog1, olog2, h.source), Resolved(olog1, olog2, h.target)>>

HyperedgeChain(olog1, olog2) == olog1.hyperedges \o olog2.hyperedges

KeysOf(olog1, olog2) ==
    {KeyOf(olog1, olog2, h) : h \in Range(HyperedgeChain(olog1, olog2))}

----------------------------------------------------------------------------
(* C3: merge node dedup *)

\* C3: merge_ologs returns exactly one node per distinct label of olog1.nodes and
\* olog2.nodes, and the node kept for a label is the first node with that label in
\* olog1's nodes followed by olog2's (its id included).
C3_OneNodePerLabelFirstKept ==
    call.fn = "merge_ologs"
    => /\ Len(call.result.nodes) = Cardinality(NodeLabels(call.olog1, call.olog2))
       /\ \A l \in NodeLabels(call.olog1, call.olog2) :
              /\ FirstWithLabel(call.olog1, call.olog2, l) \in Range(call.result.nodes)
              /\ \A n \in Range(call.result.nodes) :
                     n.label = l => n = FirstWithLabel(call.olog1, call.olog2, l)

\* a label that olog1 carries twice and olog2 once more was merged with another label
C3_Witness ==
    /\ call.fn = "merge_ologs"
    /\ Len(call.olog1.nodes) = 2
    /\ call.olog1.nodes[1].label = call.olog1.nodes[2].label
    /\ \E n \in Range(call.olog2.nodes) : n.label = call.olog1.nodes[1].label
    /\ \E n \in Range(call.olog2.nodes) : n.label # call.olog1.nodes[1].label
    /\ Len(call.result.nodes) = 2
    /\ call.olog1.nodes[1] \in Range(call.result.nodes)

----------------------------------------------------------------------------
(* C4: merging an Olog with a copy of itself *)

\* C4 as stated: merging G with a copy of itself yields exactly as many hyperedges as
\* G has (said here of the Ologs that satisfy referential closure, as every Olog the
\* program builds does).
C4_SelfMergeKeepsCount ==
    (call.fn = "merge_ologs(G, G)" /\ Closed(call.olog))
    => Len(call.result.hyperedges) = Len(call.olog.hyperedges)

\* C4 amended: merging G with a copy of itself yields one hyperedge per distinct key
\* (label, sources resolved by label, targets resolved by label) among G's hyperedges:
\* never more than G has, exactly as many when no two hyperedges of G share a key.
C4_SelfMergeOnePerKey ==
    call.fn = "merge_ologs(G, G)"
    => /\ Len(call.result.hyperedges) = Cardinality(KeysOf(call.olog, call.olog))
       /\ Len(call.result.hyperedges) <= Len(call.olog.hyperedges)
       /\ (\A i, j \in 1..Len(call.olog.hyperedges) :
               KeyOf(call.olog, call.olog, call.olog.hyperedges[i])
                   = KeyOf(call.olog, call.olog, call.olog.hyperedges[j]) => i = j)
          => Len(call.result.hyperedges) = Len(call.olog.hyperedges)

\* an Olog with two hyperedges of different keys was merged with a regenerated copy
\* and the merge has two hyperedges
C4_Witness ==
    /\ call.fn = "merge_ologs(G, G)"
    /\ call.copy # call.olog
    /\ Len(call.olog.hyperedges) = 2
    /\ Cardinality(KeysOf(call.olog, call.olog)) = 2
    /\ Len(call.result.hyperedges) = 2

----------------------------------------------------------------------------
(* C5: merge hyperedge key and provenance *)

\* C5: merge_ologs emits exactly one hyperedge per distinct key (label, source
\* sequence resolved by label, target sequence resolved by label), sequences compared
\* in order, so hyperedges of one label with different resolved targets all survive;
\* the emitted hyperedge carries the citations of the first hyperedge with its key in
\* olog1's hyperedges followed by olog2's, and no citation of a later one.
C5_OneHyperedgePerKeyFirstCitations ==
    call.fn = "merge_ologs"
    => LET chain == HyperedgeChain(call.olog1, call.olog2)
           keys == [i \in 1..Len(chain) |-> KeyOf(call.olog1, call.olog2, chain[i])]
           first == [i \in 1..Len(chain) |-> FirstIndex(keys, LAMBDA k : k = keys[i])]
           merged == Range(call.result.hyperedges)
       IN  /\ Len(call.result.hyperedges) = Cardinality(Range(keys))
           /\ \A i \in 1..Len(chain) :
                  \E h \in merged :
                      /\ <<h.label, h.source, h.target>> = keys[i]
                      /\ h.citations = chain[first[i]].citations
           /\ \A i, j \in 1..Len(chain) :
                  (chain[i].label = chain[j].label /\ keys[i][3] # keys[j][3])
                  => \E h, g \in merged :
                         /\ h # g
                         /\ h.label = chain[i].label /\ g.label = chain[i].label
                         /\ h.target = keys[i][3] /\ g.target = keys[j][3]

\* olog1 and olog2 each hold a hyperedge with the same key and different citations,
\* and the merge holds one hyperedge, with olog1's citations
C5_Witness ==
    /\ call.fn = "merge_ologs"
    /\ Len(call.olog1.hyperedges) = 1 /\ Len(call.olog2.hyperedges) = 1
    /\ call.olog1.hyperedges[1].source # <<>>
    /\ call.olog1.hyperedges[1].source # call.olog2.hyperedges[1].source
    /\ KeyOf(call.olog1, call.olog2, call.olog1.hyperedges[1])
         = KeyOf(call.olog1, call.olog2, call.olog2.hyperedges[1])
    /\ KeyOf(call.olog1, call.olog2, call.olog1.hyperedges[1])[2] # <<>>
    /\ call.olog1.hyperedges[1].citations # call.olog2.hyperedges[1].citations
    /\ Len(call.result.hyperedges) = 1
    /\ call.result.hyperedges[1].citations = call.olog1.hyperedges[1].citations

----------------------------------------------------------------------------
(* C7, C8: canonicalization *)

\* every id of a schema in the order the pass visits them: the node ids, then each
\* hyperedge's id, sources and targets
Occurrences(schema) ==
    SeqMap(LAMBDA n : n.id, schema.nodes)
    \o Flatten(SeqMap(LAMBDA h : <<h.id>> \o h.sources \o h.targets, schema.hyperedges))

SameShape(x, y) ==
    /\ Len(x.nodes) = Len(y.nodes)
    /\ Len(x.hyperedges) = Len(y.hyperedges)
    /\ \A j \in 1..Len(x.hyperedges) :
           /\ Len(x.hyperedges[j].sources) = Len(y.hyperedges[j].sources)
           /\ Len(x.hyperedges[j].targets) = Len(y.hyperedges[j].targets)

\* C7: in one call of replace_ids_with_uuids every occurrence of the same raw string
\* is rewritten to the same UUID, two distinct raw strings are never rewritten to the
\* same UUID, and a source or target entry that named node n names the rewritten id of
\* n, the lists keeping their lengths and order.
C7_SameStringSameUuid ==
    call.fn = "replace_ids_with_uuids"
    => /\ SameShape(call.raw, call.schema)
       /\ \A p \in 1..Len(Occurrences(call.schema)) : ParseStr(Occurrences(call.schema)[p]).ok
       /\ \A p, q \in 1..Len(Occurrences(call.raw)) :
              (Occurrences(call.raw)[p] = Occurrences(call.raw)[q])
              <=> (Occurrences(call.schema)[p] = Occurrences(call.schema)[q])
       /\ \A j \in 1..Len(call.raw.hyperedges), m \in 1..Len(call.raw.nodes) :
              /\ \A i \in 1..Len(call.raw.hyperedges[j].sources) :
                     call.raw.hyperedges[j].sources[i] = call.raw.nodes[m].id
                     => call.schema.hyperedges[j].sources[i] = call.schema.nodes[m].id
              /\ \A i \in 1..Len(call.raw.hyperedges[j].targets) :
                     call.raw.hyperedges[j].targets[i] = call.raw.nodes[m].id
                     => call.schema.hyperedges[j].targets[i] = call.schema.nodes[m].id

\* a schema with two nodes of different ids, whose hyperedge names both as sources and
\* one again as target, was canonicalized
C7_Witness ==
    /\ call.fn = "replace_ids_with_uuids"
    /\ Len(call.raw.nodes) = 2
    /\ call.raw.nodes[1].id # call.raw.nodes[2].id
    /\ \E j \in 1..Len(call.raw.hyperedges) :
           /\ call.raw.hyperedges[j].sources = <<call.raw.nodes[1].id, call.raw.nodes[2].id>>
           /\ call.raw.hyperedges[j].targets = <<call.raw.nodes[1].id>>
           /\ call.schema.hyperedges[j].sources
                = <<call.schema.nodes[1].id, call.schema.nodes[2].id>>
           /\ call.schema.hyperedges[j].targets = <<call.schema.nodes[1].id>>
    /\ call.schema.nodes[1].id # call.schema.nodes[2].id

\* C8: when a raw schema holds a node and a hyperedge whose raw id strings are equal,
\* the canonicalization, and the conversion to an Olog that follows it, give the node
\* and the hyperedge different UUIDs.
C8_NodeAndHyperedgeIdsApart ==
    /\ call.fn = "replace_ids_with_uuids"
       => \A m \in 1..Len(call.raw.nodes), j \in 1..Len(call.raw.hyperedges) :
              call.raw.nodes[m].id = call.raw.hyperedges[j].id
              => call.schema.nodes[m].id # call.schema.hyperedges[j].id
    /\ (call.fn = "convert_json_olog_to_olog" /\ call.canonical)
       => \A n \in Range(call.olog.nodes), h \in Range(call.olog.hyperedges) : n.id # h.id

----------------------------------------------------------------------------
(* C9: wire round-trip *)

NonDangling(schema, refs) ==
    SelectSeq(refs, LAMBDA r : \E n \in Range(schema.nodes) : n.id = r)

\* the label of the output node an id string names
LabelAt(json, id) == (CHOOSE n \in Range(json.nodes) : n.id = id).label

\* C9 as stated: convert_olog_to_json(convert_json_olog_to_olog(s, citation)) keeps the
\* title, has one output node per node of s with its label, keeps the hyperedge
\* labels, and each hyperedge has the sequence of its non-dangling references, each
\* pointing at the output node that carries the label of the referenced node of s.
C9_RoundTripOneNodePerNode ==
    call.fn = "convert_olog_to_json"
    => /\ call.json.title = call.schema.title
       /\ SeqMap(LAMBDA n : n.label, call.json.nodes)
            \in Perms(SeqMap(LAMBDA n : n.label, call.schema.nodes))
       /\ SeqMap(LAMBDA h : h.label, call.json.hyperedges)
            = SeqMap(LAMBDA h : h.label, call.schema.hyperedges)
       /\ \A j \in 1..Len(call.schema.hyperedges) :
              /\ Len(call.json.hyperedges[j].sources)
                   = Len(NonDangling(call.schema, call.schema.hyperedges[j].sources))
              /\ Len(call.json.hyperedges[j].targets)
                   = Len(NonDangling(call.schema, call.schema.hyperedges[j].targets))
              /\ \A i \in 1..Len(call.json.hyperedges[j].sources) :
                     \E n \in Range(call.schema.nodes) :
                         /\ n.id = NonDangling(call.schema, call.schema.hyperedges[j].sources)[i]
                         /\ n.label = LabelAt(call.json, call.json.hyperedges[j].sources[i])
              /\ \A i \in 1..Len(call.json.hyperedges[j].targets) :
                     \E n \in Range(call.schema.nodes) :
                         /\ n.id = NonDangling(call.schema, call.schema.hyperedges[j].targets)[i]
                         /\ n.label = LabelAt(call.json, call.json.hyperedges[j].targets[i])

\* the label of the last node of the schema with the id
LastLabel(schema, id) ==
    schema.nodes[CHOOSE i \in 1..Len(schema.nodes) :
                    /\ schema.nodes[i].id = id
                    /\ \A k \in (i+1)..Len(schema.nodes) : schema.nodes[k].id # id].label

\* C9 amended: the round trip keeps the title; it has one output node per distinct
\* node id of s, carrying the label of the last node of s with that id (one per node
\* of s when the node ids of s are pairwise distinct); it keeps the hyperedge labels in
\* order; and each hyperedge has the sequence of its non-dangling references, in order,
\* each pointing at the output node of the referenced id.
C9_RoundTripOneNodePerId ==
    call.fn = "convert_olog_to_json"
    => LET ids == {n.id : n \in Range(call.schema.nodes)}
           outIds == {n.id : n \in Range(call.json.nodes)}
       IN  /\ call.json.title = call.schema.title
           /\ SeqMap(LAMBDA h : h.label, call.json.hyperedges)
                = SeqMap(LAMBDA h : h.label, call.schema.hyperedges)
           /\ Len(call.json.nodes) = Cardinality(ids)
           /\ \E f \in [ids -> outIds] :
                  /\ \A r1, r2 \in ids : f[r1] = f[r2] => r1 = r2
                  /\ Range(call.json.nodes)
                       = {[id |-> f[r], label |-> LastLabel(call.schema, r)] : r \in ids}
                  /\ \A j \in 1..Len(call.schema.hyperedges) :
                         /\ call.json.hyperedges[j].sources
                              = SeqMap(LAMBDA r : f[r],
                                       NonDangling(call.schema, call.schema.hyperedges[j].sources))
                         /\ call.json.hyperedges[j].targets
                              = SeqMap(LAMBDA r : f[r],
                                       NonDangling(call.schema, call.schema.hyperedges[j].targets))

\* a schema as the generator wrote it, with one node and a hyperedge of two sources of
\* which one dangles, went through the round trip and kept the other source
C9_Witness ==
    /\ call.fn = "convert_olog_to_json"
    /\ ~call.canonical
    /\ Len(call.schema.nodes) = 1
    /\ \E j \in 1..Len(call.schema.hyperedges) :
           /\ Len(call.schema.hyperedges[j].sources) = 2
           /\ Len(call.json.hyperedges[j].sources) = 1
           /\ call.json.hyperedges[j].sources[1] = call.json.nodes[1].id

----------------------------------------------------------------------------
(* C6: referential closure of every Olog the program produces *)

\* three separate runs: the store commands, a call of merge_ologs on any two Ologs,
\* and the generation pipeline
InitClosure == Init \/ InitMerge \/ InitWire

\* the run is one of store commands: it did not start as a call of merge_ologs or of
\* the generation pipeline
StoreRun ==
    call.fn \in {"none", "write_olog_to_db", "read_olog_from_db", "delete_olog_from_db",
                 "merge-ologs"}

NextClosure == (StoreRun /\ Next) \/ NextMerge \/ NextWire

SpecClosure == InitClosure /\ [][NextClosure]_vars

\* the Olog has a stored hyperedge with a link to a node id that no node row of the
\* Olog carries
HasForeignLink(db, olog_id) ==
    \E h \in Range(db.Hyperedges), l \in Range(db.Hyperedge_Links) :
        /\ h.olog_id = UuidToString(olog_id)
        /\ l.hyperedge_id = h.hyperedge_id
        /\ \A n \in Range(db.Nodes) :
               n.olog_id = UuidToString(olog_id) => n.node_id # l.node_id

\* C6: every Olog produced by convert_json_olog_to_olog, by merge_ologs (whatever its
\* two inputs) or returned by a successful read_olog_from_db is closed: each node of a
\* source or target sequence is a node of the Olog, id and label; and a read of an Olog
\* with a stored link to a node id it does not own fails.
C6_ProducedOlogsAreClosed ==
    /\ call.fn = "convert_json_olog_to_olog" => Closed(call.olog)
    /\ call.fn = "merge_ologs" => Closed(call.result)
    /\ (call.fn = "merge-ologs" /\ call.ok) => Closed(call.merged)
    /\ call.fn = "read_olog_from_db"
       => /\ call.result.ok => Closed(call.result.val)
          /\ HasForeignLink(store, call.olog_id) => ~call.result.ok

\* a stored Olog one of whose links names a node that another Olog has taken over
\* was read, and the read failed
C6_Witness ==
    /\ call.fn = "read_olog_from_db"
    /\ \E r \in Range(store.Ologs) : r.olog_id = UuidToString(call.olog_id)
    /\ HasForeignLink(store, call.olog_id)
    /\ ~call.result.ok

----------------------------------------------------------------------------
(* write_olog_to_db when one of its statements returns an error *)

\* the connection of one write after BEGIN TRANSACTION and the statements executed so
\* far: what olog.db holds for every other connection, and what the transaction sees
Transaction(db, stmts) == [committed |-> db, pending |-> ExecuteAll(db, stmts)]

\* a connection that keeps what its open transaction did
DropConnectionCommitting(tx) == tx.pending

\* conn goes out of scope at the `?` return with its transaction still open: the
\* connection is closed and SQLite rolls the open transaction back
DropConnection(tx) == tx.committed

\* write_olog_to_db(&olog) whose n-th statement returns Err, the statements before it
\* having executed; statement Len(WriteStatements(olog)) + 1 is COMMIT
write_olog_to_db_err(db, olog, n) ==
    DropConnection(Transaction(db, SubSeq(WriteStatements(olog), 1, n - 1)))

\* write_olog_to_db(&olog) returning Err at its n-th statement
WriteOlogFails(olog, n) ==
    /\ ops < MaxOps
    /\ store' = write_olog_to_db_err(store, olog, n)
    /\ ops' = ops + 1
    /\ call' = [fn |-> "write_olog_to_db: Err", olog |-> olog, failed |-> n,
                before |-> store]
    /\ UNCHANGED fresh

NextFaults ==
    \/ Next
    \/ \E olog \in StoreOlogs :
           \E n \in 1..(Len(WriteStatements(olog)) + 1) : WriteOlogFails(olog, n)

SpecFaults == Init /\ [][NextFaults]_vars

----------------------------------------------------------------------------
(* C11: write atomicity *)

\* the statement is the last of the write for its row: no later statement of the same
\* write replaces the row it wrote
LastForItsRow(stmts, i) ==
    \A j \in (i+1)..Len(stmts) :
        ~ /\ stmts[j].table = stmts[i].table
          /\ stmts[i].table \in DOMAIN PrimaryKey
          /\ stmts[j].row[PrimaryKey[stmts[j].table]] = stmts[i].row[PrimaryKey[stmts[i].table]]

\* C11: write_olog_to_db is all-or-nothing.  When a statement of the write fails after
\* BEGIN TRANSACTION, the store is exactly the store before the write, so every read
\* returns what it returned before; when the write succeeds, every row it wrote (the
\* last one written for each primary key, and every link row) is in the store.
C11_WriteAllOrNothing ==
    /\ call.fn = "write_olog_to_db: Err"
       => /\ store = call.before
          /\ \A id \in StoreOlogIds :
                 read_olog_from_db(store, id) = read_olog_from_db(call.before, id)
    /\ call.fn = "write_olog_to_db"
       => LET stmts == WriteStatements(call.olog)
          IN  \A i \in 1..Len(stmts) :
                  LastForItsRow(stmts, i) => stmts[i].row \in Range(store[stmts[i].table])

\* the write of an Olog with a hyperedge failed after its Olog row, a node row and the
\* hyperedge row had been written over a store that already held another Olog
C11_Witness ==
    /\ call.fn = "write_olog_to_db: Err"
    /\ call.before.Ologs # <<>>
    /\ \A r \in Range(call.before.Ologs) : r.olog_id # UuidToString(call.olog.id)
    /\ call.olog.hyperedges # <<>>
    /\ call.failed > Len(call.olog.nodes) + 2
    /\ Transaction(call.before, SubSeq(WriteStatements(call.olog), 1, call.failed - 1)).pending
         # call.before
    /\ store = call.before

----------------------------------------------------------------------------
(* olog.db edited by another program: an id column is TEXT and holds any string *)

\* the string rewritten as text that Uuid::parse_str rejects
NotUuid(s) == [fmt |-> "text", hex |-> s.hex]

\* the id string of the i-th row of table t rewritten; a citation id is rewritten in
\* its Citations row and in the Citation_Links rows that name it, so that the join of
\* the read still finds the citation
EditIdString(db, t, i) ==
    CASE t = "Nodes" -> [db EXCEPT !.Nodes[i].node_id = NotUuid(@)]
      [] t = "Hyperedges" -> [db EXCEPT !.Hyperedges[i].hyperedge_id = NotUuid(@)]
      [] t = "Hyperedge_Links" -> [db EXCEPT !.Hyperedge_Links[i].node_id = NotUuid(@)]
      [] t = "Citations" ->
            LET old == db.Citations[i].citation_id
            IN  [db EXCEPT !.Citations[i].citation_id = NotUuid(old),
                           !.Citation_Links =
                               [j \in 1..Len(db.Citation_Links) |->
                                   IF db.Citation_Links[j].citation_id = old
                                   THEN [db.Citation_Links[j] EXCEPT !.citation_id = NotUuid(old)]
                                   ELSE db.Citation_Links[j]]]

IdTables == {"Nodes", "Hyperedges", "Hyperedge_Links", "Citations"}

ForeignEdit(t, i) ==
    /\ ops < MaxOps
    /\ i \in 1..Len(store[t])
    /\ store' = EditIdString(store, t, i)
    /\ ops' = ops + 1
    /\ call' = [fn |-> "edit", table |-> t, row |-> i, before |-> store]
    /\ UNCHANGED fresh

NextForeign ==
    \/ \E olog \in StoreOlogs : WriteOlog(olog)
    \/ \E olog_id \in StoreOlogIds : ReadOlog(olog_id)
    \/ \E t \in IdTables : \E i \in 1..Len(store[t]) : ForeignEdit(t, i)

SpecForeign == Init /\ [][NextForeign]_vars

----------------------------------------------------------------------------
(* C12: an id string that is not a UUID *)

HasOlogRow(db, olog_id) == \E r \in Range(db.Ologs) : r.olog_id = UuidToString(olog_id)

\* the Olog has a node row whose id is not a UUID
MalformedNodeId(db, olog_id) ==
    \E r \in Range(db.Nodes) : r.olog_id = UuidToString(olog_id) /\ ~ParseStr(r.node_id).ok

\* the Olog has a hyperedge row whose id is not a UUID, or a hyperedge row one of
\* whose links names a node id that is not a UUID, or one of whose citations has an
\* id that is not a UUID
MalformedHyperedgeId(db, olog_id) ==
    \E h \in Range(db.Hyperedges) :
        /\ h.olog_id = UuidToString(olog_id)
        /\ \/ ~ParseStr(h.hyperedge_id).ok
           \/ \E l \in Range(db.Hyperedge_Links) :
                  l.hyperedge_id = h.hyperedge_id /\ ~ParseStr(l.node_id).ok
           \/ \E l \in Range(db.Citation_Links) :
                  /\ l.hyperedge_id = h.hyperedge_id
                  /\ ~ParseStr(l.citation_id).ok
                  /\ \E c \in Range(db.Citations) : c.citation_id = l.citation_id

\* C12: when an id string the read of a stored Olog reaches is not a valid UUID (a
\* node id, a hyperedge id, a citation id or the node id of a link), the read returns
\* an error: it never returns an Olog with that row left out.
C12_MalformedIdAbortsRead ==
    (call.fn = "read_olog_from_db" /\ HasOlogRow(store, call.olog_id)
        /\ (MalformedNodeId(store, call.olog_id) \/ MalformedHyperedgeId(store, call.olog_id)))
    => ~call.result.ok

----------------------------------------------------------------------------
(* C13: the error of a read *)

\* what read_olog_from_db returns for an id that has no Ologs row
NotFound(olog_id) == read_olog_from_db(EmptyStore, olog_id)

\* C13: the error read_olog_from_db returns for a stored Olog whose data is malformed
\* (a link to a node the Olog does not own, or an id string that is not a UUID) is not
\* the error it returns for an id that has no Ologs row.
C13_NotFoundIsDistinct ==
    (call.fn = "read_olog_from_db" /\ HasOlogRow(store, call.olog_id) /\ ~call.result.ok)
    => call.result # NotFound(call.olog_id)

----------------------------------------------------------------------------
(* C14: writing an Olog again *)

\* the store holds the Olog as one write leaves it: the read returns it, each hyperedge
\* with the sources, targets and citations of the Olog
HoldsAsWritten(db, olog) ==
    /\ read_olog_from_db(db, olog.id).ok
    /\ read_olog_from_db(db, olog.id).val = olog

\* C14: writing an Olog that the store already holds as one write left it does not
\* fail and leaves the read of its id what it was: each hyperedge has the sources,
\* targets and citations of the Olog, none of them twice.
C14_RewriteIsIdempotent ==
    (call.fn = "write_olog_to_db" /\ HoldsAsWritten(call.before, call.olog))
    => read_olog_from_db(store, call.olog.id) = read_olog_from_db(call.before, call.olog.id)

----------------------------------------------------------------------------
(* C15: a write and the other stored Ologs *)

\* C15: a successful write of an Olog O leaves read_olog_from_db(P) what it was for
\* every other stored Olog P, also when O holds a node id or a hyperedge id that P
\* holds.
C15_WriteLeavesOtherOlogs ==
    call.fn = "write_olog_to_db"
    => \A p \in StoreOlogIds :
           (p # call.olog.id /\ HasOlogRow(call.before, p))
           => read_olog_from_db(store, p) = read_olog_from_db(call.before, p)

====
